---- MODULE Spec2Model ----
(***************************************************************************)
(* A model of the three SOLID scripts of code_patterns_with_python:        *)
(*   0101_single_responsibility_principle.py  Journal                      *)
(*   0102_open_closed_principle.py            Specification, BetterFilter  *)
(*   0103_liskov_substitution_principle.py    Rectangle, Square, use_it    *)
(* Each script has its own specification (SpecSRP, SpecAnd, SpecFilter,    *)
(* SpecLSP) over its own variables; the other variables stay at their      *)
(* initial values.                                                         *)
(***************************************************************************)
EXTENDS Integers, Sequences, FiniteSets

VARIABLES
    entries,    \* Journal.entries: list of strings (sequences of characters)
    count,      \* Journal.count
    calls,      \* history: [adds, removes, error] of the Journal calls so far
    A, B, C,    \* Specification objects held by the caller
    X,          \* the item a specification is evaluated on
    res,        \* outcome of the caller's last specification operation
    items,      \* the list handed to BetterFilter.filter
    AB,         \* the caller's variable holding A & B (large_blue), or None
    gen,        \* the generator object returned by BetterFilter.filter
    evaluated,  \* history: positions of items on which the generator called is_satisfied
    shape,      \* a Rectangle or Square object: [cls, _width, _height]
    used        \* outcome of the last setter call or use_it call on shape

vars == <<entries, count, calls, A, B, C, X, res, items, AB, gen, evaluated, shape, used>>

srpVars == <<entries, count, calls>>
andVars == <<A, B, C, X, res>>
filterVars == <<items, AB, gen, evaluated>>
lspVars == <<shape, used>>

None == [kind |-> "None"]

(***************************************************************************)
(* Bounds of the model.                                                    *)
(***************************************************************************)
MaxAdds == 11       \* add_entry calls explored
MaxEntries == 3     \* entries held at once
MaxArgs == 3        \* arguments given to AndSpecification(*args)
MaxItems == 3       \* length of the list handed to filter
MaxDim == 5         \* widths, heights and sizes explored (besides use_it's 10)

(***************************************************************************)
(* 0101_single_responsibility_principle.py: Journal                        *)
(***************************************************************************)

\* str(d) for one decimal digit
DigitChar(d) ==
    CASE d = 0 -> "0" [] d = 1 -> "1" [] d = 2 -> "2" [] d = 3 -> "3" [] d = 4 -> "4"
      [] d = 5 -> "5" [] d = 6 -> "6" [] d = 7 -> "7" [] d = 8 -> "8" [] d = 9 -> "9"

RECURSIVE IntToStr(_)
\* f"{n}" for a non-negative int: decimal digits, no leading zeros
IntToStr(n) ==
    IF n < 10 THEN <<DigitChar(n)>>
    ELSE IntToStr(n \div 10) \o <<DigitChar(n % 10)>>

\* f"{self.count}: {text}"
FormatEntry(n, text) == IntToStr(n) \o <<":", " ">> \o text

\* the texts given to add_entry; the second looks like a numbered entry itself
Texts == { <<"a">>, <<"7", ":", " ", "b">> }

JournalInit ==
    /\ entries = <<>>
    /\ count = 0
    /\ calls = [adds |-> 0, removes |-> 0, error |-> "none"]

\* Journal.add_entry: append the numbered text, then count += 1
add_entry(text) ==
    /\ count < MaxAdds
    /\ Len(entries) < MaxEntries
    /\ entries' = Append(entries, FormatEntry(count, text))
    /\ count' = count + 1
    /\ calls' = [calls EXCEPT !.adds = @ + 1, !.error = "none"]

\* del lst[pos] on a list of length n: the list without that element
DelAt(lst, i) == SubSeq(lst, 1, i - 1) \o SubSeq(lst, i + 1, Len(lst))

\* a plausible slip: remove_entry also takes the removed entry off the counter
remove_entry_decrementing(pos) ==
    LET n == Len(entries)
        i == IF pos < 0 THEN n + pos + 1 ELSE pos + 1
    IN  /\ pos >= -n /\ pos < n
        /\ entries' = DelAt(entries, i)
        /\ count' = count - 1
        /\ calls' = [calls EXCEPT !.removes = @ + 1, !.error = "none"]

\* Journal.remove_entry: del self.entries[pos]; a negative pos counts from the
\* end, a pos outside -len..len-1 raises IndexError and changes nothing
remove_entry(pos) ==
    LET n == Len(entries)
        i == IF pos < 0 THEN n + pos + 1 ELSE pos + 1
    IN  IF pos >= -n /\ pos < n
        THEN /\ entries' = DelAt(entries, i)
             /\ count' = count
             /\ calls' = [calls EXCEPT !.removes = @ + 1, !.error = "none"]
        ELSE /\ calls' = [calls EXCEPT !.error = "IndexError"]
             /\ UNCHANGED <<entries, count>>

OtherInit(own) ==
    /\ "srp" \in own \/ JournalInit
    /\ "and" \in own \/ (A = None /\ B = None /\ C = None /\ X = None /\ res = None)
    /\ "filter" \in own \/ (items = <<>> /\ AB = None /\ gen = None /\ evaluated = <<>>)
    /\ "lsp" \in own \/ (shape = None /\ used = None)

InitSRP == JournalInit /\ OtherInit({"srp"})

NextSRP ==
    \/ \E text \in Texts : add_entry(text) /\ UNCHANGED <<andVars, filterVars, lspVars>>
    \/ \E pos \in -(MaxEntries + 1) .. MaxEntries :
          remove_entry(pos) /\ UNCHANGED <<andVars, filterVars, lspVars>>

SpecSRP == InitSRP /\ [][NextSRP]_vars

\* value of one decimal digit character, -1 for any other character
DigitValue(ch) ==
    CASE ch = "0" -> 0 [] ch = "1" -> 1 [] ch = "2" -> 2 [] ch = "3" -> 3 [] ch = "4" -> 4
      [] ch = "5" -> 5 [] ch = "6" -> 6 [] ch = "7" -> 7 [] ch = "8" -> 8 [] ch = "9" -> 9
      [] OTHER -> -1

RECURSIVE ParsePrefix(_, _, _)
\* the number written before the first ":" of an entry, -1 when there is none
ParsePrefix(e, i, acc) ==
    IF i > Len(e) THEN -1
    ELSE IF e[i] = ":" THEN (IF i = 1 THEN -1 ELSE acc)
    ELSE IF DigitValue(e[i]) < 0 THEN -1
    ELSE ParsePrefix(e, i + 1, 10 * acc + DigitValue(e[i]))

NumericPrefix(e) == ParsePrefix(e, 1, 0)

\* C10: after any sequence of add_entry and successful remove_entry calls, count
\* is the number of add_entry calls (remove_entry never lowers it), len(entries) is
\* adds minus removes, and the numeric prefixes of the remaining entries are
\* strictly increasing in list order (so pairwise distinct and below count: a
\* number is never reused after a removal).
C10_JournalNumbering ==
    /\ count = calls.adds
    /\ Len(entries) = calls.adds - calls.removes
    /\ \A i \in 1 .. Len(entries) :
          /\ NumericPrefix(entries[i]) >= 0
          /\ NumericPrefix(entries[i]) < count
    /\ \A i, j \in 1 .. Len(entries) :
          i < j => NumericPrefix(entries[i]) < NumericPrefix(entries[j])

\* an entry was removed from the middle and a two-digit number was given afterwards
C10_Witness ==
    /\ calls.removes >= 2
    /\ Len(entries) = 3
    /\ NumericPrefix(entries[1]) = 0
    /\ NumericPrefix(entries[2]) = 4
    /\ NumericPrefix(entries[3]) = 10

(***************************************************************************)
(* 0103_liskov_substitution_principle.py: Rectangle, Square, use_it        *)
(***************************************************************************)

\* the widths, heights and sizes given to the constructors and the setters
Dims == 1 .. MaxDim

\* Rectangle.__init__(self, width, height)
Rectangle(width, height) == [cls |-> "Rectangle", _width |-> width, _height |-> height]

\* Square.__init__(self, size): Rectangle.__init__(self, size, size)
Square(size) == [Rectangle(size, size) EXCEPT !.cls = "Square"]

\* Rectangle.width, Rectangle.height, Rectangle.area (getters, inherited by Square)
width(self) == self._width
height(self) == self._height
area(self) == self._width * self._height

\* Rectangle's setters assign the attribute of self
Rectangle_set_width(self, value) == [self EXCEPT !._width = value]
Rectangle_set_height(self, value) == [self EXCEPT !._height = value]

\* Square's setters run "_width = _height = value": both names are local
\* variables of the setter, which end with the call; self is not assigned
Square_set_width(self, value) ==
    LET locals == [_width |-> value, _height |-> value] IN self
Square_set_height(self, value) ==
    LET locals == [_width |-> value, _height |-> value] IN self

\* obj.width = value and obj.height = value, dispatched on the object's class
set_width(self, value) ==
    IF self.cls = "Square" THEN Square_set_width(self, value)
    ELSE Rectangle_set_width(self, value)
set_height(self, value) ==
    IF self.cls = "Square" THEN Square_set_height(self, value)
    ELSE Rectangle_set_height(self, value)

\* the module's objects: rc = Rectangle(2, 3), sq = Square(5), and others like them
InitLSP ==
    /\ \/ \E w, h \in Dims : shape = Rectangle(w, h)
       \/ \E size \in Dims : shape = Square(size)
    /\ used = None
    /\ OtherInit({"lsp"})

AssignWidth(value) ==
    /\ shape' = set_width(shape, value)
    /\ used' = [kind |-> "width", value |-> value]
    /\ UNCHANGED <<srpVars, andVars, filterVars>>

AssignHeight(value) ==
    /\ shape' = set_height(shape, value)
    /\ used' = [kind |-> "height", value |-> value]
    /\ UNCHANGED <<srpVars, andVars, filterVars>>

\* use_it(rc): w = rc.width; rc.height = 10; expected_area = int(w * 10);
\* print expected_area and rc.area
use_it ==
    LET w == width(shape)
        after == set_height(shape, 10)
    IN  /\ shape' = after
        /\ used' = [kind |-> "use_it", value |-> 10,
                    expected_area |-> w * 10, area |-> area(after)]
        /\ UNCHANGED <<srpVars, andVars, filterVars>>

NextLSP ==
    \/ \E value \in Dims : AssignWidth(value)
    \/ \E value \in Dims : AssignHeight(value)
    \/ use_it

SpecLSP == InitLSP /\ [][NextLSP]_vars

\* C9: for a Square, after assigning v to sq.height or to sq.width (use_it's
\* rc.height = 10 included), both sq.width and sq.height equal v.
C9_SquareSettersUpdateBoth ==
    (shape.cls = "Square" /\ used # None) =>
        (width(shape) = used.value /\ height(shape) = used.value)

(***************************************************************************)
(* 0102_open_closed_principle.py: Specification and its subclasses         *)
(***************************************************************************)

\* all sequences over S of length 0 .. n
Tuples(S, n) == UNION { [1 .. k -> S] : k \in 0 .. n }

\* Product(name, color, size) with members of the enums Color and Size
Product(name, color, size) == [name |-> name, color |-> color, size |-> size]

apple == Product("Apple", "GREEN", "SMALL")
tree == Product("Tree", "GREEN", "LARGE")
house == Product("House", "BLUE", "LARGE")

\* objects other than Products, lacking the color attribute, the size attribute or both
rock == [name |-> "Rock", size |-> "LARGE"]
pebble == [name |-> "Pebble", size |-> "SMALL"]
leaf == [name |-> "Leaf", color |-> "GREEN"]
sky == [name |-> "Sky", color |-> "BLUE"]
ghost == [name |-> "Ghost"]

\* the items a specification is evaluated on
Items == { apple, tree, house, Product("Sea", "BLUE", "SMALL"),
           rock, pebble, leaf, sky, ghost }

\* the items of the lists handed to filter
FilterItems == { apple, tree, house, rock, leaf }

\* ColorSpecification.__init__, SizeSpecification.__init__
ColorSpecification(color) == [kind |-> "Color", color |-> color]
SizeSpecification(size) == [kind |-> "Size", size |-> size]

\* AndSpecification.__init__(self, *args): self.args = args, of any length
AndSpecification(args) == [kind |-> "And", args |-> args]

\* a plausible slip: the operands are combined in reverse order
Specification__and__swapped(self, other) == AndSpecification(<<other, self>>)

\* Specification.__and__(self, other): return AndSpecification(self, other)
Specification__and__(self, other) == AndSpecification(<<self, other>>)

\* bool as returned by ==, and the AttributeError of reading a missing attribute
Bool(b) == IF b THEN "True" ELSE "False"
AttributeError(attr) ==
    IF attr = "color" THEN "AttributeError: color" ELSE "AttributeError: size"
IsError(r) == r \notin {"True", "False"}

\* a plausible slip: any() in place of all()
RECURSIVE AnyOf(_, _)
AnyOf(results, i) ==
    IF i > Len(results) THEN "False"
    ELSE IF IsError(results[i]) THEN results[i]
    ELSE IF results[i] = "True" THEN "True"
    ELSE AnyOf(results, i + 1)

\* a plausible slip: a loop that accumulates "result and f(arg)" starting from False
RECURSIVE AllFromFalse(_, _)
AllFromFalse(results, i) ==
    IF i > Len(results) THEN "False"
    ELSE IF IsError(results[i]) THEN results[i]
    ELSE AllFromFalse(results, i + 1)

RECURSIVE AllOf(_, _)
\* all(map(f, args)) from the i-th argument on: map is lazy, so results[i] stands
\* for calling f on the i-th argument only when all() gets that far; all() stops
\* at the first false result, and an exception raised by f ends it
AllOf(results, i) ==
    IF i > Len(results) THEN "True"
    ELSE IF IsError(results[i]) THEN results[i]
    ELSE IF results[i] = "False" THEN "False"
    ELSE AllOf(results, i + 1)

RECURSIVE is_satisfied(_, _)
\* ColorSpecification.is_satisfied, SizeSpecification.is_satisfied and
\* AndSpecification.is_satisfied, dispatched on the object's class
is_satisfied(self, item) ==
    CASE self.kind = "Color" ->
            IF "color" \in DOMAIN item THEN Bool(item.color = self.color)
            ELSE AttributeError("color")
      [] self.kind = "Size" ->
            IF "size" \in DOMAIN item THEN Bool(item.size = self.size)
            ELSE AttributeError("size")
      [] self.kind = "And" ->
            AllOf([k \in 1 .. Len(self.args) |-> is_satisfied(self.args[k], item)], 1)

\* the demo's specifications: green, large, and the blue of large_blue
green == ColorSpecification("GREEN")
large == SizeSpecification("LARGE")
blue == ColorSpecification("BLUE")

\* the caller's operands: the leaves, the composite of no arguments and the
\* composites built from two leaves with &
Operands ==
    {green, large} \cup { AndSpecification(<<>>) }
                   \cup { Specification__and__(l, r) : l \in {green, large}, r \in {green, large} }

InitAnd ==
    /\ A \in Operands /\ B \in Operands /\ C \in Operands
    /\ X \in Items
    /\ res = None
    /\ OtherInit({"and"})

\* The caller applies one operation to its operands and keeps the outcome in res;
\* no operation assigns A, B, C or X, so a further one would start from the same
\* inputs.

\* AndSpecification(*args).is_satisfied(X)
EvalAnd(args) ==
    LET spec == AndSpecification(args)
    IN  /\ res = None
        /\ res' = [kind |-> "ctor", spec |-> spec, value |-> is_satisfied(spec, X)]
        /\ UNCHANGED <<A, B, C, X, srpVars, filterVars, lspVars>>

\* (l & r).is_satisfied(X)
EvalAmpersand(l, r) ==
    LET spec == Specification__and__(l, r)
    IN  /\ res = None
        /\ res' = [kind |-> "and", left |-> l, right |-> r,
                   spec |-> spec, value |-> is_satisfied(spec, X)]
        /\ UNCHANGED <<A, B, C, X, srpVars, filterVars, lspVars>>

\* ((A & B) & C).is_satisfied(X) and (A & (B & C)).is_satisfied(X)
EvalNested ==
    LET l == Specification__and__(Specification__and__(A, B), C)
        r == Specification__and__(A, Specification__and__(B, C))
    IN  /\ res = None
        /\ res' = [kind |-> "nest", left |-> l, right |-> r,
                   leftValue |-> is_satisfied(l, X), rightValue |-> is_satisfied(r, X)]
        /\ UNCHANGED <<A, B, C, X, srpVars, filterVars, lspVars>>

NextAnd ==
    \/ \E args \in Tuples({A, B, C}, MaxArgs) : EvalAnd(args)
    \/ \E l, r \in {A, B, C} : EvalAmpersand(l, r)
    \/ EvalNested

SpecAnd == InitAnd /\ [][NextAnd]_vars

\* C1: for every non-empty P1..Pn and every item X,
\* AndSpecification(P1, ..., Pn).is_satisfied(X) is true if and only if
\* Pi.is_satisfied(X) is true for every i.
C1_AndIffAll ==
    (res.kind = "ctor" /\ Len(res.spec.args) >= 1) =>
        ( res.value = "True"
          <=> \A i \in 1 .. Len(res.spec.args) : is_satisfied(res.spec.args[i], X) = "True" )

\* a composite of three children, not all the same, was evaluated to true
C1_Witness ==
    /\ res.kind = "ctor" /\ Len(res.spec.args) = 3 /\ res.value = "True"
    /\ res.spec.args[1] # res.spec.args[2]

\* C3: AndSpecification() with no arguments fails at construction; no AND
\* composite with zero children ever exists or is evaluated.
C3_EmptyAndRejected ==
    res.kind = "ctor" => (res.spec.kind = "And" /\ Len(res.spec.args) >= 1)

\* Python's "a and b and c" on the three results: the first that is not true
\* (false, or the exception raised), else the last
PyAnd3(a, b, c) == IF a # "True" THEN a ELSE IF b # "True" THEN b ELSE c

\* C5: A & B is an AndSpecification whose children are exactly (A, B) in that
\* order, and ((A & B) & C).is_satisfied(X) = (A & (B & C)).is_satisfied(X) =
\* (A.is_satisfied(X) and B.is_satisfied(X) and C.is_satisfied(X)), whatever the
\* nesting depth of A, B and C.
C5_AmpersandClosedAndNested ==
    /\ res.kind = "and" =>
          /\ res.spec.kind = "And"
          /\ res.spec.args = <<res.left, res.right>>
    /\ res.kind = "nest" =>
          /\ res.leftValue = res.rightValue
          /\ res.leftValue = PyAnd3(is_satisfied(A, X), is_satisfied(B, X), is_satisfied(C, X))
          /\ res.left.args = <<AndSpecification(<<A, B>>), C>>
          /\ res.right.args = <<A, AndSpecification(<<B, C>>)>>

\* both nestings of three different operands, themselves composites, were evaluated
\* on an item the middle one raises on
C5_Witness ==
    /\ res.kind = "nest"
    /\ A.kind = "And" /\ B.kind = "And" /\ C.kind = "And"
    /\ A # B /\ B # C /\ A # C
    /\ is_satisfied(A, X) = "True"
    /\ IsError(res.leftValue)

\* C6: (P & P).is_satisfied(X) = P.is_satisfied(X) for every specification P and
\* every item X.
C6_AndIdempotent ==
    (res.kind = "and" /\ res.left = res.right) =>
        res.value = is_satisfied(res.left, X)

\* a composite was combined with itself and evaluated to true
C6_Witness ==
    /\ res.kind = "and" /\ res.left = res.right
    /\ res.left.kind = "And" /\ Len(res.left.args) = 2
    /\ res.value = "True"

(***************************************************************************)
(* 0102_open_closed_principle.py: BetterFilter.filter                      *)
(***************************************************************************)

\* a plausible slip: "try: ... except AttributeError: continue" around the test
RECURSIVE ScanSkipping(_, _, _, _)
ScanSkipping(its, spec, j, ev) ==
    IF j > Len(its) THEN [outcome |-> "StopIteration", pos |-> Len(its), ev |-> ev]
    ELSE LET r == is_satisfied(spec, its[j])
         IN  IF r = "True" THEN [outcome |-> "yield", pos |-> j, ev |-> Append(ev, j)]
             ELSE ScanSkipping(its, spec, j + 1, Append(ev, j))

\* a plausible slip: the loop ends at the first item that does not match
\* ("else: break", a takewhile)
ScanTakeWhile(its, spec, j, ev) ==
    IF j > Len(its) THEN [outcome |-> "StopIteration", pos |-> Len(its), ev |-> ev]
    ELSE LET r == is_satisfied(spec, its[j])
         IN  IF r = "True" THEN [outcome |-> "yield", pos |-> j, ev |-> Append(ev, j)]
             ELSE IF r = "False"
             THEN [outcome |-> "StopIteration", pos |-> Len(its), ev |-> Append(ev, j)]
             ELSE [outcome |-> r, pos |-> j, ev |-> Append(ev, j)]

RECURSIVE Scan(_, _, _, _)
\* the generator's "for item in items: if spec.is_satisfied(item): yield item",
\* resumed at position j: it runs to the next yield, to the end of the list
\* (StopIteration) or to the exception is_satisfied raises; ev lists the
\* positions is_satisfied was called on
Scan(its, spec, j, ev) ==
    IF j > Len(its) THEN [outcome |-> "StopIteration", pos |-> Len(its), ev |-> ev]
    ELSE LET r == is_satisfied(spec, its[j])
         IN  IF r = "True" THEN [outcome |-> "yield", pos |-> j, ev |-> Append(ev, j)]
             ELSE IF r = "False" THEN Scan(its, spec, j + 1, Append(ev, j))
             ELSE [outcome |-> r, pos |-> j, ev |-> Append(ev, j)]

InitFilter ==
    /\ items \in Tuples(FilterItems, MaxItems)
    /\ A \in {green, large}
    /\ B \in {green, blue}
    /\ AB = None
    /\ gen = None
    /\ evaluated = <<>>
    /\ C = None /\ X = None /\ res = None
    /\ JournalInit /\ shape = None /\ used = None

\* large_blue = large & ColorSpecification(Color.BLUE): AB = A & B
Compose ==
    /\ AB' = Specification__and__(A, B)
    /\ UNCHANGED <<A, B, C, X, res, items, gen, evaluated, srpVars, lspVars>>

\* bf.filter(items, spec): calling a generator function runs none of its body
BetterFilter_filter(spec) ==
    /\ spec # None
    /\ gen' = [kind |-> "generator", status |-> "created", spec |-> spec,
               pos |-> 0, out |-> <<>>, yieldPos |-> 0, last |-> "none"]
    /\ evaluated' = <<>>
    /\ UNCHANGED <<A, B, C, X, res, items, AB, srpVars, lspVars>>

\* a plausible slip: a filter that consumes the list it scans (items.pop(0))
NextItemPopping ==
    /\ gen # None /\ gen.status \in {"created", "suspended"} /\ items # <<>>
    /\ items' = Tail(items)
    /\ evaluated' = Append(evaluated, 1)
    /\ gen' = [gen EXCEPT !.status = "suspended", !.last = "item"]
    /\ UNCHANGED <<A, B, C, X, res, AB, srpVars, lspVars>>

\* a plausible slip: a filter that tests the whole list on the first pull
\* (matches = [i for i in items if spec.is_satisfied(i)]) and then hands them out
NextItemEager ==
    /\ gen # None /\ gen.status \in {"created", "suspended"}
    /\ LET s == Scan(items, gen.spec, gen.pos + 1, <<>>)
       IN  /\ evaluated' = [k \in 1 .. Len(items) |-> k]
           /\ gen' = IF s.outcome = "yield"
                     THEN [gen EXCEPT !.status = "suspended", !.pos = s.pos,
                                      !.out = Append(@, items[s.pos]),
                                      !.yieldPos = s.pos, !.last = "item"]
                     ELSE [gen EXCEPT !.status = "done", !.pos = s.pos,
                                      !.last = "StopIteration"]
    /\ UNCHANGED <<A, B, C, X, res, items, AB, srpVars, lspVars>>

\* next(gen), as the for loop of the consumer calls it: the generator runs to its
\* next yield, returns (StopIteration) or raises; a generator that has returned
\* or raised is finished and every later next() raises StopIteration
NextItem ==
    /\ gen # None
    /\ IF gen.status \in {"created", "suspended"}
       THEN LET s == Scan(items, gen.spec, gen.pos + 1, evaluated)
            IN  /\ evaluated' = s.ev
                /\ gen' = CASE s.outcome = "yield" ->
                                  [gen EXCEPT !.status = "suspended", !.pos = s.pos,
                                              !.out = Append(@, items[s.pos]),
                                              !.yieldPos = s.pos, !.last = "item"]
                            [] s.outcome = "StopIteration" ->
                                  [gen EXCEPT !.status = "done", !.pos = s.pos,
                                              !.last = "StopIteration"]
                            [] OTHER ->
                                  [gen EXCEPT !.status = "raised", !.pos = s.pos,
                                              !.last = s.outcome]
       ELSE /\ gen' = [gen EXCEPT !.last = "StopIteration"]
            /\ UNCHANGED evaluated
    /\ UNCHANGED <<A, B, C, X, res, items, AB, srpVars, lspVars>>

\* spec.is_satisfied(items[i]) called by the caller itself
CallIsSatisfied(spec, i) ==
    /\ spec # None
    /\ res' = [kind |-> "call", value |-> is_satisfied(spec, items[i])]
    /\ UNCHANGED <<A, B, C, X, items, AB, gen, evaluated, srpVars, lspVars>>

NextFilter ==
    \/ Compose
    \/ \E spec \in {A, B, AB} : BetterFilter_filter(spec)
    \/ NextItem
    \/ \E spec \in {A, B, AB} : \E i \in 1 .. Len(items) : CallIsSatisfied(spec, i)

SpecFilter == InitFilter /\ [][NextFilter]_vars

\* the items of its that spec is satisfied by, in the order of its
Matches(its, spec) == SelectSeq(its, LAMBDA it : is_satisfied(spec, it) = "True")

\* C2: fully consuming BetterFilter.filter(C, P) (the generator has signalled
\* StopIteration) has yielded exactly the items of C that P is satisfied by, each
\* occurrence once, in C's order; an empty C yields nothing.
C2_FilterExact ==
    gen.kind = "generator" =>
        /\ gen.status = "done" => gen.out = Matches(items, gen.spec)
        /\ items = <<>> => gen.out = <<>>

\* a list with a duplicated match around a non-match, fully consumed with a composite
C2_Witness ==
    /\ gen.kind = "generator" /\ gen.status = "done" /\ gen.spec.kind = "And"
    /\ Len(items) = 3 /\ Len(gen.out) = 2
    /\ items[1] = items[3] /\ items[1] # items[2]

\* C4 as stated: at any point of consumption, is_satisfied has been called only
\* on the prefix of items up to and including the most recently yielded item
\* (stated here for the runs in which is_satisfied never raises).
C4_LazyAtAnyPoint ==
    (gen.kind = "generator" /\ gen.status # "raised") =>
        evaluated = [k \in 1 .. gen.yieldPos |-> k]

\* C4 as amended: nothing is evaluated before the first pull; while the generator
\* is suspended at a yield, is_satisfied has been called once on each item up to
\* and including the most recently yielded one and on no later item; the pull that
\* ends the generator has evaluated the items up to where the scan ended, no further.
C4_Lazy ==
    gen.kind = "generator" =>
        /\ evaluated = [k \in 1 .. gen.pos |-> k]
        /\ gen.status = "created" => gen.pos = 0
        /\ gen.status = "suspended" => (gen.pos = gen.yieldPos /\ gen.pos >= 1)
        /\ gen.status \in {"done", "raised"} => gen.pos >= gen.yieldPos

\* the consumer has pulled one match and a later item, which would match too, is
\* not yet evaluated
C4_Witness ==
    /\ gen.kind = "generator" /\ gen.status = "suspended"
    /\ Len(gen.out) = 1 /\ gen.yieldPos = 2 /\ Len(items) = 3
    /\ is_satisfied(gen.spec, items[3]) = "True"

\* C7: no filter call, pull, is_satisfied call or & composition changes the items
\* collection or a specification: the operands A and B of &, the composite AB once
\* built, and the specification a generator was created with.
C7_NoSideEffects ==
    [][ /\ items' = items
        /\ A' = A /\ B' = B
        /\ AB # None => AB' = AB
        /\ (gen.kind = "generator" /\ gen'.status # "created") => gen'.spec = gen.spec
      ]_vars

\* the composite was built, filtered with to the end, and evaluated directly
C7_Witness ==
    /\ AB # None /\ gen.kind = "generator" /\ gen.spec = AB
    /\ gen.status = "done" /\ Len(gen.out) >= 1
    /\ res.kind = "call"

\* C8: when evaluating the specification on an item raises, the generator raises
\* that exception at the pull that reaches the item: it is the last item evaluated,
\* it is neither yielded nor skipped, and all earlier matches have been yielded;
\* a composite raises what its first raising child raises.
C8_ErrorPropagates ==
    /\ gen.kind = "generator" =>
          /\ \A i \in 1 .. Len(evaluated) :
                IsError(is_satisfied(gen.spec, items[evaluated[i]])) =>
                    /\ gen.status = "raised"
                    /\ i = Len(evaluated) /\ evaluated[i] = gen.pos
          /\ gen.status = "raised" =>
                /\ IsError(is_satisfied(gen.spec, items[gen.pos]))
                /\ gen.last \in {is_satisfied(gen.spec, items[gen.pos]), "StopIteration"}
                /\ gen.out = Matches(SubSeq(items, 1, gen.pos - 1), gen.spec)
          /\ gen.last \notin {"none", "item", "StopIteration"} => gen.status = "raised"
    /\ \A i \in 1 .. Len(items) :
          LET a == is_satisfied(A, items[i])
              b == is_satisfied(B, items[i])
              ab == is_satisfied(Specification__and__(A, B), items[i])
          IN  /\ IsError(a) => ab = a
              /\ (a = "True" /\ IsError(b)) => ab = b

\* a composite raised on the third item after two matches were yielded
C8_Witness ==
    /\ gen.kind = "generator" /\ gen.status = "raised" /\ gen.spec.kind = "And"
    /\ Len(gen.out) = 2 /\ gen.pos = 3
    /\ gen.last = "AttributeError: color"

====
